---- MODULE Spec2Model ----
(***************************************************************************)
(* Model of the TensorRT-LLM backend of text-generation-inference:         *)
(*   backends/trtllm/lib/backend.cpp  (core: GetExecutorConfig, Submit,    *)
(*                                     Stream)                             *)
(*   the FFI layer (TensorRtLlmBackendImpl: IsReady, Submit, StreamTokens; *)
(*                  CreateTensorRtLlmBackend)                              *)
(* The inference engine (tle::Executor) is an external collaborator: it is *)
(* modelled as per-request queues of responses that awaitResponses hands   *)
(* out in batches of any size.                                             *)
(***************************************************************************)
EXTENDS Integers, Sequences, FiniteSets, TLC

\* ------------------------------------------------------------------ bounds
\* longest response sequence the engine produces for one request id
MaxResp == 3
\* the same, when two streams run concurrently
MaxConcResp == 2
\* number of Submit calls made in one run
MaxSubmits == 2
\* world_size values a metadata document carries: q * 256 + k, q <= MaxWrap, k <= MaxLow
MaxWrap == 1
MaxLow == 3
\* number of backends created in one process
MaxBackends == 2

\* ------------------------------------------------------------ engine model
ReqIds == {1, 2}

\* token id carried by the k-th response the engine produces for request r:
\* distinct per (request, position), so that order and ownership are visible
TokenOf(r, k) == 10 * r + k

ResponseKinds == {"token", "final", "error"}

\* tle::Response: an error record, or a result with outputTokenIds[0][0] and isFinal
MkResponse(r, k, kind) ==
    IF kind = "error"
    THEN [err |-> TRUE, tok |-> 0, fin |-> FALSE]
    ELSE [err |-> FALSE, tok |-> TokenOf(r, k), fin |-> (kind = "final")]

\* every response sequence of length <= maxLen the engine can produce for r
EngineScripts(r, maxLen) ==
    UNION { { [k \in 1..n |-> MkResponse(r, k, f[k])] : f \in [1..n -> ResponseKinds] }
            : n \in 0..maxLen }

\* GenerationContext pointers callers hand to StreamTokens
CtxPtrs == {1, 2}

\* callback arguments of the FFI callback: (tokenId, score, isFinal); score in tenths
ErrorSentinel == [tok |-> 0, score |-> 0, fin |-> TRUE]

VARIABLES
    active,           \* request ids on which a streaming call is made
    pending,          \* engine: responses produced for r, not yet handed out
    delivered,        \* responses handed to the streaming call on r, all batches
    call,             \* which entry point streams r: "none", "Stream", "StreamTokens"
    pc,               \* position of the streaming call on r
    responses,        \* rest of the batch being iterated
    isFinal,          \* Stream: local isFinal
    generatedTokens,  \* Stream: local generatedTokens
    numTokens,        \* StreamTokens: local numTokens
    cbLog,            \* callback invocations made by the call on r, in order
    ret,              \* value returned by the call on r (-1: not returned)
    ctxArg,           \* StreamTokens: the GenerationContext pointer the caller supplied (0: none)
    cbCtx,            \* context pointer passed to each callback invocation, in order
    ctxMem            \* caller-owned state behind each context pointer

streamVars == <<active, pending, delivered, call, pc, responses, isFinal,
                generatedTokens, numTokens, cbLog, ret, ctxArg, cbCtx, ctxMem>>

VARIABLES
    debugBuild,       \* SPDLOG_DEBUG statements are compiled in
    statsQueries,     \* engine: getLatestIterationStats calls received
    requests,         \* engine: requests enqueued, in order; the id of the k-th is k
    submitLog,        \* Submit calls made: arguments, engine calls made, id returned
    ffiLog            \* TensorRtLlmBackendImpl::Submit calls made: arguments, id returned

submitVars == <<debugBuild, statsQueries, requests, submitLog, ffiLog>>

VARIABLES
    initCount,        \* times InitializeBackend has run in this process
    executorsBuilt,   \* tle::Executor objects constructed in this process
    backend,          \* <<>> or <<b>>: the backend created last (document, arguments, config)
    createCalls,      \* CreateTensorRtLlmBackend calls made in this process
    aborted,          \* the process was terminated by a failed runtime assertion
    ready             \* <<>> or <<b>>: what IsReady last reported for the backend

configVars == <<initCount, executorsBuilt, backend, createCalls, aborted, ready>>

vars == <<streamVars, submitVars, configVars>>

\* ------------------------------------------------------------ Init
StreamInit(ids, maxLen) ==
    /\ active = ids
    /\ pending \in { p \in [ReqIds -> EngineScripts(1, maxLen) \cup EngineScripts(2, maxLen)] :
                       \A r \in ReqIds : /\ p[r] \in EngineScripts(r, maxLen)
                                         /\ (r \notin ids => p[r] = <<>>) }
    /\ delivered = [r \in ReqIds |-> <<>>]
    /\ call = [r \in ReqIds |-> "none"]
    /\ pc = [r \in ReqIds |-> "idle"]
    /\ responses = [r \in ReqIds |-> <<>>]
    /\ isFinal = [r \in ReqIds |-> FALSE]
    /\ generatedTokens = [r \in ReqIds |-> 0]
    /\ numTokens = [r \in ReqIds |-> 0]
    /\ cbLog = [r \in ReqIds |-> <<>>]
    /\ ret = [r \in ReqIds |-> -1]
    /\ ctxArg = [r \in ReqIds |-> 0]
    /\ cbCtx = [r \in ReqIds |-> <<>>]
    /\ ctxMem = [p \in CtxPtrs |-> 0]

\* ------------------------------------------------------------ engine calls
\* awaitResponses called without the request id: hands out any request's responses
AwaitResponses_AnyId(reqId) ==
    \E q \in ReqIds : \E n \in 1..Len(pending[q]) :
        /\ responses' = [responses EXCEPT ![reqId] = SubSeq(pending[q], 1, n)]
        /\ delivered' = [delivered EXCEPT ![reqId] = @ \o SubSeq(pending[q], 1, n)]
        /\ pending' = [pending EXCEPT ![q] = SubSeq(@, n + 1, Len(@))]

\* executor.awaitResponses(reqId): blocks until the engine has at least one
\* response for reqId, then returns the next n >= 1 of them, oldest first
AwaitResponses(reqId) ==
    \E n \in 1..Len(pending[reqId]) :
        /\ responses' = [responses EXCEPT ![reqId] = SubSeq(pending[reqId], 1, n)]
        /\ delivered' = [delivered EXCEPT ![reqId] = @ \o SubSeq(pending[reqId], 1, n)]
        /\ pending' = [pending EXCEPT ![reqId] = SubSeq(@, n + 1, Len(@))]

\* TensorRtLlmBackend::Poll(requestId): one awaitResponses on the executor
Poll(requestId) == AwaitResponses(requestId)

\* ------------------------------------------------------------ Stream (core)
\* size_t TensorRtLlmBackend::Stream(reqId, cb): entry, locals initialised
Stream_Call(reqId) ==
    /\ reqId \in active
    /\ pc[reqId] = "idle"
    /\ call' = [call EXCEPT ![reqId] = "Stream"]
    /\ isFinal' = [isFinal EXCEPT ![reqId] = FALSE]
    /\ generatedTokens' = [generatedTokens EXCEPT ![reqId] = 0]
    /\ pc' = [pc EXCEPT ![reqId] = "await"]
    /\ UNCHANGED <<ctxArg, cbCtx, ctxMem, submitVars, configVars, active, pending, delivered, responses, numTokens, cbLog, ret>>

\* do { const auto responses = executor.awaitResponses(reqId);
Stream_Await(reqId) ==
    /\ pc[reqId] = "await"
    /\ AwaitResponses(reqId)
    /\ pc' = [pc EXCEPT ![reqId] = "loop"]
    /\ UNCHANGED <<ctxArg, cbCtx, ctxMem, submitVars, configVars, active, call, isFinal, generatedTokens, numTokens, cbLog, ret>>

\* for (response : responses) -- if (response.hasError()) { isFinal = true; }
Stream_Error(reqId) ==
    /\ pc[reqId] = "loop"
    /\ responses[reqId] # <<>>
    /\ Head(responses[reqId]).err
    /\ isFinal' = [isFinal EXCEPT ![reqId] = TRUE]
    /\ responses' = [responses EXCEPT ![reqId] = Tail(@)]
    /\ UNCHANGED <<ctxArg, cbCtx, ctxMem, submitVars, configVars, active, pending, delivered, call, pc, generatedTokens, numTokens, cbLog, ret>>

\* else { isFinal = generation.isFinal; ++generatedTokens; cb(token); }
Stream_Token(reqId) ==
    /\ pc[reqId] = "loop"
    /\ responses[reqId] # <<>>
    /\ ~Head(responses[reqId]).err
    /\ isFinal' = [isFinal EXCEPT ![reqId] = Head(responses[reqId]).fin]
    /\ generatedTokens' = [generatedTokens EXCEPT ![reqId] = @ + 1]
    /\ cbLog' = [cbLog EXCEPT ![reqId] = Append(@, [tok |-> Head(responses[reqId]).tok])]
    /\ responses' = [responses EXCEPT ![reqId] = Tail(@)]
    /\ UNCHANGED <<ctxArg, cbCtx, ctxMem, submitVars, configVars, active, pending, delivered, call, pc, numTokens, ret>>

\* } while (!isFinal);  -- back to awaitResponses
Stream_Again(reqId) ==
    /\ pc[reqId] = "loop"
    /\ responses[reqId] = <<>>
    /\ ~isFinal[reqId]
    /\ pc' = [pc EXCEPT ![reqId] = "await"]
    /\ UNCHANGED <<ctxArg, cbCtx, ctxMem, submitVars, configVars, active, pending, delivered, call, responses, isFinal,
                   generatedTokens, numTokens, cbLog, ret>>

\* } while (!isFinal);  return generatedTokens;
Stream_Return(reqId) ==
    /\ pc[reqId] = "loop"
    /\ responses[reqId] = <<>>
    /\ isFinal[reqId]
    /\ ret' = [ret EXCEPT ![reqId] = generatedTokens[reqId]]
    /\ pc' = [pc EXCEPT ![reqId] = "done"]
    /\ UNCHANGED <<ctxArg, cbCtx, ctxMem, submitVars, configVars, active, pending, delivered, call, responses, isFinal,
                   generatedTokens, numTokens, cbLog>>

\* ------------------------------------------------------------ StreamTokens (FFI)
\* the caller's callback, invoked with its context: it accumulates into the
\* state the context refers to (one more invocation received)
Callback(ctx) == ctxMem' = [ctxMem EXCEPT ![ctx] = @ + 1]

\* size_t TensorRtLlmBackendImpl::StreamTokens(requestId, ctx, callback): entry
StreamTokens_Call(requestId) ==
    /\ requestId \in active
    /\ pc[requestId] = "idle"
    /\ call' = [call EXCEPT ![requestId] = "StreamTokens"]
    /\ numTokens' = [numTokens EXCEPT ![requestId] = 0]
    /\ pc' = [pc EXCEPT ![requestId] = "poll"]
    /\ \E ctx \in CtxPtrs : ctxArg' = [ctxArg EXCEPT ![requestId] = ctx]
    /\ UNCHANGED <<cbCtx, ctxMem, submitVars, configVars, active, pending, delivered, responses, isFinal, generatedTokens, cbLog, ret>>

\* for (const auto &item : Poll(requestId))  -- the range expression, evaluated once
StreamTokens_Poll(requestId) ==
    /\ pc[requestId] = "poll"
    /\ Poll(requestId)
    /\ pc' = [pc EXCEPT ![requestId] = "items"]
    /\ UNCHANGED <<ctxArg, cbCtx, ctxMem, submitVars, configVars, active, call, isFinal, generatedTokens, numTokens, cbLog, ret>>

\* if (!item.hasError()) { ++numTokens; callback(ctx, token, 1.0, isFinal); }
StreamTokens_Decoded(requestId) ==
    /\ pc[requestId] = "items"
    /\ responses[requestId] # <<>>
    /\ ~Head(responses[requestId]).err
    /\ numTokens' = [numTokens EXCEPT ![requestId] = @ + 1]
    /\ cbLog' = [cbLog EXCEPT ![requestId] =
                    Append(@, [tok |-> Head(responses[requestId]).tok, score |-> 10,
                               fin |-> Head(responses[requestId]).fin])]
    /\ responses' = [responses EXCEPT ![requestId] = Tail(@)]
    /\ cbCtx' = [cbCtx EXCEPT ![requestId] = Append(@, ctxArg[requestId])]
    /\ Callback(ctxArg[requestId])
    /\ UNCHANGED <<ctxArg, submitVars, configVars, active, pending, delivered, call, pc, isFinal, generatedTokens, ret>>

\* the error branch passing a null context: callback(nullptr, 0, 0.0, true)
StreamTokens_Error_NullCtx(requestId) ==
    /\ pc[requestId] = "items"
    /\ responses[requestId] # <<>>
    /\ Head(responses[requestId]).err
    /\ cbLog' = [cbLog EXCEPT ![requestId] = Append(@, ErrorSentinel)]
    /\ responses' = [responses EXCEPT ![requestId] = Tail(@)]
    /\ cbCtx' = [cbCtx EXCEPT ![requestId] = Append(@, 0)]
    /\ UNCHANGED <<ctxArg, ctxMem, submitVars, configVars, active, pending, delivered, call, pc, isFinal, generatedTokens, numTokens, ret>>

\* else { callback(ctx, 0, 0.0, true); }
StreamTokens_Error(requestId) ==
    /\ pc[requestId] = "items"
    /\ responses[requestId] # <<>>
    /\ Head(responses[requestId]).err
    /\ cbLog' = [cbLog EXCEPT ![requestId] = Append(@, ErrorSentinel)]
    /\ responses' = [responses EXCEPT ![requestId] = Tail(@)]
    /\ cbCtx' = [cbCtx EXCEPT ![requestId] = Append(@, ctxArg[requestId])]
    /\ Callback(ctxArg[requestId])
    /\ UNCHANGED <<ctxArg, submitVars, configVars, active, pending, delivered, call, pc, isFinal, generatedTokens, numTokens, ret>>

\* end of the range-for: return numTokens;
StreamTokens_Return(requestId) ==
    /\ pc[requestId] = "items"
    /\ responses[requestId] = <<>>
    /\ ret' = [ret EXCEPT ![requestId] = numTokens[requestId]]
    /\ pc' = [pc EXCEPT ![requestId] = "done"]
    /\ UNCHANGED <<ctxArg, cbCtx, ctxMem, submitVars, configVars, active, pending, delivered, call, responses, isFinal,
                   generatedTokens, numTokens, cbLog>>

\* ------------------------------------------------------------ Submit (core)
\* std::optional: <<>> is std::nullopt, <<v>> holds v
NullOpt == <<>>
ValueOr(opt, dflt) == IF opt = NullOpt THEN dflt ELSE opt[1]

\* argument values tried; topP and temperature are in tenths (5 is 0.5)
TokenSeqs == {<<>>, <<5>>}
MaxNewTokensVals == {0, 5}
TopKVals == {10}
TopPVals == {5, 11}
TemperatureVals == {0, 10}
MinLengthVals == {0}
NTopTokensVals == {NullOpt, <<0>>, <<1>>, <<2>>}

SubmitInit(builds) ==
    /\ debugBuild \in builds
    /\ statsQueries = 0
    /\ requests = <<>>
    /\ submitLog = <<>>
    /\ ffiLog = <<>>

\* tle::SamplingConfig{1, topK, topP, nullopt, nullopt, nullopt, seed, temperature,
\*                     minLength, nullopt, repetitionPenalty, nullopt, frequencyPenalty}
SamplingConfig(topK, topP, temperature, minLength, repetitionPenalty, frequencyPenalty, seed) ==
    [beamWidth |-> 1, topK |-> topK, topP |-> topP, seed |-> seed,
     temperature |-> temperature, minLength |-> minLength,
     repetitionPenalty |-> repetitionPenalty, frequencyPenalty |-> frequencyPenalty]

\* the output configuration comparing nTopTokens with >= 1
OutputConfig_AtLeastOne(nTopTokens) == <<FALSE, FALSE, ValueOr(nTopTokens, 1) >= 1>>

\* tle::OutputConfig{false, false, nTopTokens.value_or(1) > 1}
OutputConfig(nTopTokens) == <<FALSE, FALSE, ValueOr(nTopTokens, 1) > 1>>

\* tle::Request{tokens, maxNewTokens, true, sampling, output}
Request(tokens, maxNewTokens, sampling, output) ==
    [tokens |-> tokens, maxNewTokens |-> maxNewTokens, streaming |-> TRUE,
     sampling |-> sampling, output |-> output]

\* tle::IdType TensorRtLlmBackend::Submit(...): the debug log line queries the engine's
\* iteration statistics, then the request is built and enqueued, whatever the arguments
Submit(tokens, maxNewTokens, topK, topP, temperature, minLength, repetitionPenalty, frequencyPenalty, seed, nTopTokens) ==
    LET sampling == SamplingConfig(topK, topP, temperature, minLength,
                                   repetitionPenalty, frequencyPenalty, seed)
        output == OutputConfig(nTopTokens)
        request == Request(tokens, maxNewTokens, sampling, output)
        stats == IF debugBuild THEN 1 ELSE 0
    IN  /\ Len(submitLog) < MaxSubmits
        /\ statsQueries' = statsQueries + stats
        /\ requests' = Append(requests, request)
        /\ submitLog' = Append(submitLog,
               [tokens |-> tokens, maxNewTokens |-> maxNewTokens, topK |-> topK,
                topP |-> topP, temperature |-> temperature, minLength |-> minLength,
                repetitionPenalty |-> repetitionPenalty,
                frequencyPenalty |-> frequencyPenalty, seed |-> seed,
                nTopTokens |-> nTopTokens,
                engineCalls |-> stats + 1,
                returned |-> <<Len(requests) + 1>>])
        /\ UNCHANGED <<streamVars, configVars, debugBuild>>

\* argument values tried for the FFI entry; topP and temperature are in tenths
FfiTokenSeqs == {<<5, 6>>}
FfiTopKVals == {10}
FfiTopPVals == {5}
FfiTemperatureVals == {10, 20}
FfiSeedVals == {7}

\* 2^31 - 1: larger uint32_t values become negative as int32_t
Int32Max == 2147483647

\* std::vector<int32_t> tokens_(tokens.begin(), tokens.end()): each uint32_t as int32_t
TokensAsInt32(tokens) ==
    [k \in 1..Len(tokens) |->
        IF tokens[k] > Int32Max
        THEN ((tokens[k] - Int32Max) - 1) - Int32Max - 1
        ELSE tokens[k]]

\* float_t argument (in tenths) passed for an int32_t parameter: truncated toward zero
FloatToInt32(tenths) == IF tenths >= 0 THEN tenths \div 10 ELSE -((-tenths) \div 10)

\* uint64_t argument passed for a float_t parameter (in tenths)
Uint64ToFloat(n) == n * 10

\* uint64_t TensorRtLlmBackendImpl::Submit(tokens, topK, topP, temperature, seed):
\*   return TensorRtLlmBackend::Submit(std::move(tokens_), topK, topP, temperature, seed);
\* the five arguments bind to the first five parameters of the core Submit
\* (tokens, maxNewTokens, topK, topP, temperature); minLength and the optionals take
\* what the declaration supplies
Impl_Submit(tokens, topK, topP, temperature, seed) ==
    /\ \E minLength \in MinLengthVals :
           Submit(TokensAsInt32(tokens), topK, FloatToInt32(topP), temperature,
                  Uint64ToFloat(seed), minLength, NullOpt, NullOpt, NullOpt, NullOpt)
    /\ ffiLog' = Append(ffiLog,
           [tokens |-> tokens, topK |-> topK, topP |-> topP, temperature |-> temperature,
            seed |-> seed, returned |-> Len(requests) + 1])

SubmitNext ==
    \/ \E tokens \in TokenSeqs, maxNewTokens \in MaxNewTokensVals, topK \in TopKVals,
          topP \in TopPVals, temperature \in TemperatureVals, minLength \in MinLengthVals,
          nTopTokens \in NTopTokensVals :
           /\ Submit(tokens, maxNewTokens, topK, topP, temperature, minLength,
                     NullOpt, NullOpt, NullOpt, nTopTokens)
           /\ UNCHANGED ffiLog
    \/ \E tokens \in FfiTokenSeqs, topK \in FfiTopKVals, topP \in FfiTopPVals,
          temperature \in FfiTemperatureVals, seed \in FfiSeedVals :
           Impl_Submit(tokens, topK, topP, temperature, seed)

\* ------------------------------------------------------------ configuration
\* width of the integer world_size is read into: get<uint8_t>()
Uint8Values == 256

\* world_size values of the metadata documents tried (integers >= 1)
WorldSizes == { q * Uint8Values + k : q \in 0..MaxWrap, k \in 0..MaxLow } \ {0}

\* worker executable paths the caller passes
WorkerPaths == {"", "/usr/local/bin/executorWorker"}

\* NVML results: nvmlInit_v2 succeeded, device handle acquired, capability read,
\* major version the device reports; without initialisation no handle is acquired
NvmlResults ==
    { r \in [initOk : BOOLEAN, handleOk : BOOLEAN, capabilityOk : BOOLEAN, major : {7, 8}] :
        ~r.initOk => ~r.handleOk }

\* the world_size field of the metadata documents tried: absent, or an integer >= 1
WorldSizeFields == {NullOpt} \cup { <<n>> : n \in WorldSizes }

\* outcome of a failed JSON_ASSERT: the process is terminated
AssertAbort == -1

\* what an unchecked read of an absent key yields when assertions are compiled out
UndefinedReads == {1, 2}

ConfigInit ==
    /\ initCount = 0
    /\ executorsBuilt = 0
    /\ backend = <<>>
    /\ createCalls = 0
    /\ aborted = FALSE
    /\ ready = <<>>

\* config["/pretrained_config/mapping/world_size"_json_pointer] on a const json:
\* unchecked access. A present field yields its value; an absent one is undefined
\* behaviour guarded by a runtime assertion (abort, or a read of whatever is there)
JsonPointerRead(field) ==
    IF field = NullOpt THEN {AssertAbort} \cup UndefinedReads ELSE {field[1]}

\* config["/pretrained_config/mapping/world_size"_json_pointer].get<uint8_t>():
\* the document's number converted to an 8-bit unsigned integer
GetUint8(n) == n % Uint8Values

\* GetExecutorConfig comparing the major version with > 8
GetExecutorConfig_Above8(worldSize, workerPath, nvml) ==
    LET cudaComputeCapabilitiesMajor ==
            IF nvml.handleOk /\ nvml.capabilityOk THEN nvml.major ELSE 0
    IN  [maxBeamWidth |-> 1,
         mode |-> IF GetUint8(worldSize) = 1 THEN "Leader" ELSE "Orchestrator",
         orchestratorConfig |->
             IF GetUint8(worldSize) = 1
             THEN NullOpt
             ELSE <<[isOrchestrator |-> TRUE, workerExecutablePath |-> workerPath]>>,
         kvCache |-> TRUE,
         enableChunkedContext |-> (cudaComputeCapabilitiesMajor > 8)]

\* GetExecutorConfig enabling the KV cache only in Orchestrator mode
GetExecutorConfig_KvSharded(worldSize, workerPath, nvml) ==
    LET cudaComputeCapabilitiesMajor ==
            IF nvml.handleOk /\ nvml.capabilityOk THEN nvml.major ELSE 0
    IN  [maxBeamWidth |-> 1,
         mode |-> IF GetUint8(worldSize) = 1 THEN "Leader" ELSE "Orchestrator",
         orchestratorConfig |->
             IF GetUint8(worldSize) = 1
             THEN NullOpt
             ELSE <<[isOrchestrator |-> TRUE, workerExecutablePath |-> workerPath]>>,
         kvCache |-> (GetUint8(worldSize) # 1),
         enableChunkedContext |-> (cudaComputeCapabilitiesMajor >= 8)]

\* tle::ExecutorConfig GetExecutorConfig(const json &config, const std::string &workerPath)
GetExecutorConfig(worldSize, workerPath, nvml) ==
    LET cudaComputeCapabilitiesMajor ==
            IF nvml.handleOk /\ nvml.capabilityOk THEN nvml.major ELSE 0
    IN  [maxBeamWidth |-> 1,
         mode |-> IF GetUint8(worldSize) = 1 THEN "Leader" ELSE "Orchestrator",
         orchestratorConfig |->
             IF GetUint8(worldSize) = 1
             THEN NullOpt
             ELSE <<[isOrchestrator |-> TRUE, workerExecutablePath |-> workerPath]>>,
         kvCache |-> TRUE,
         enableChunkedContext |-> (cudaComputeCapabilitiesMajor >= 8)]

\* void InitializeBackend(): nvmlInit_v2(); initTrtLlmPlugins();
InitializeBackend == initCount' = initCount + 1

\* CreateTensorRtLlmBackend guarding InitializeBackend with an init-once flag
CreateTensorRtLlmBackend_InitOnce(field, executorWorker, nvml) ==
    /\ ~aborted
    /\ createCalls < MaxBackends
    /\ createCalls' = createCalls + 1
    /\ initCount' = IF initCount = 0 THEN 1 ELSE initCount
    /\ ready' = <<>>
    /\ \E worldSize \in JsonPointerRead(field) :
        IF worldSize = AssertAbort
        THEN /\ aborted' = TRUE
             /\ UNCHANGED <<backend, executorsBuilt>>
        ELSE /\ backend' = << [hasWorldSize |-> field # NullOpt,
                              world_size |-> ValueOr(field, 0),
                              executorWorker |-> executorWorker,
                              nvml |-> nvml,
                              execConfig |-> GetExecutorConfig(worldSize, executorWorker, nvml)] >>
             /\ executorsBuilt' = executorsBuilt + 1
             /\ UNCHANGED aborted
    /\ UNCHANGED <<streamVars, submitVars>>

\* CreateTensorRtLlmBackend(engineFolder, executorWorker): InitializeBackend(), then the
\* TensorRtLlmBackend constructor: parse config.json, derive the executor
\* configuration, construct the executor
CreateTensorRtLlmBackend(field, executorWorker, nvml) ==
    /\ ~aborted
    /\ createCalls < MaxBackends
    /\ createCalls' = createCalls + 1
    /\ InitializeBackend
    /\ ready' = <<>>
    /\ \E worldSize \in JsonPointerRead(field) :
        IF worldSize = AssertAbort
        THEN /\ aborted' = TRUE
             /\ UNCHANGED <<backend, executorsBuilt>>
        ELSE /\ backend' = << [hasWorldSize |-> field # NullOpt,
                              world_size |-> ValueOr(field, 0),
                              executorWorker |-> executorWorker,
                              nvml |-> nvml,
                              execConfig |-> GetExecutorConfig(worldSize, executorWorker, nvml)] >>
             /\ executorsBuilt' = executorsBuilt + 1
             /\ UNCHANGED aborted
    /\ UNCHANGED <<streamVars, submitVars>>

\* bool TensorRtLlmBackendImpl::IsReady() const: forwards to TensorRtLlmBackend::IsReady(),
\* which reports whether the executor of a constructed backend accepts requests
IsReady ==
    /\ ~aborted
    /\ backend # <<>>
    /\ ready = <<>>
    /\ \E canEnqueue \in BOOLEAN : ready' = <<canEnqueue>>
    /\ UNCHANGED <<streamVars, submitVars, initCount, executorsBuilt, backend, createCalls, aborted>>

ConfigNext ==
    \/ \E field \in WorldSizeFields, executorWorker \in WorkerPaths, nvml \in NvmlResults :
           CreateTensorRtLlmBackend(field, executorWorker, nvml)
    \/ IsReady

\* ------------------------------------------------------------ specifications
StreamNext ==
    \E r \in ReqIds :
        \/ Stream_Call(r)
        \/ Stream_Await(r)
        \/ Stream_Error(r)
        \/ Stream_Token(r)
        \/ Stream_Again(r)
        \/ Stream_Return(r)
        \/ StreamTokens_Call(r)
        \/ StreamTokens_Poll(r)
        \/ StreamTokens_Decoded(r)
        \/ StreamTokens_Error(r)
        \/ StreamTokens_Return(r)

\* one streaming call, on request id 1
InitStream == StreamInit({1}, MaxResp) /\ SubmitInit({FALSE}) /\ ConfigInit
SpecStream == InitStream /\ [][StreamNext]_vars

\* two streaming calls running concurrently, on request ids 1 and 2
InitConc == StreamInit(ReqIds, MaxConcResp) /\ SubmitInit({FALSE}) /\ ConfigInit
SpecConc == InitConc /\ [][StreamNext]_vars

\* Submit calls against one executor
InitSubmit == StreamInit({}, 0) /\ SubmitInit(BOOLEAN) /\ ConfigInit
SpecSubmit == InitSubmit /\ [][SubmitNext]_vars

\* backend creations in one process
InitConfig == StreamInit({}, 0) /\ SubmitInit({FALSE}) /\ ConfigInit
SpecConfig == InitConfig /\ [][ConfigNext]_vars

\* ------------------------------------------------------------ streaming claims
\* everything the engine produces for r, in production order
Script(r) == delivered[r] \o pending[r]

\* the responses the call on r has iterated over so far
Processed(r) == SubSeq(delivered[r], 1, Len(delivered[r]) - Len(responses[r]))

IsErrorSentinelCb(c) ==
    DOMAIN c = {"tok", "score", "fin"} /\ c.tok = 0 /\ c.score = 0 /\ c.fin

IsTerminalCb(c) == "fin" \in DOMAIN c /\ c.fin

\* N successful non-final responses followed by one successful final response
IsTokensThenFinal(s) ==
    /\ Len(s) >= 1
    /\ \A k \in 1..Len(s) : ~s[k].err /\ (s[k].fin <=> k = Len(s))

\* K successful non-final responses, then an error at position K+1
ErrorAfter(s, K) ==
    /\ Len(s) >= K + 1
    /\ s[K + 1].err
    /\ \A k \in 1..K : ~s[k].err /\ ~s[k].fin

ErrorProcessed(r) == \E k \in 1..Len(Processed(r)) : Processed(r)[k].err

\* C1: when the engine produces N successful non-final responses and then one
\* successful final response, in whatever batches, a streaming call that has
\* returned has invoked the callback N+1 times, in arrival order, with
\* isFinal=false on the first N and isFinal=true on the last, and returned N+1.
C1_StreamDeliversAll ==
    \A r \in ReqIds :
        (pc[r] = "done" /\ IsTokensThenFinal(Script(r))) =>
            /\ ret[r] = Len(Script(r))
            /\ Len(cbLog[r]) = Len(Script(r))
            /\ \A k \in 1..Len(cbLog[r]) :
                   /\ cbLog[r][k].tok = Script(r)[k].tok
                   /\ ("fin" \in DOMAIN cbLog[r][k] => (cbLog[r][k].fin <=> k = Len(Script(r))))

\* C2: when the first response the engine delivers for the request carries an
\* error, a streaming call that has returned has invoked the callback exactly
\* once, with (tokenId=0, score=0.0, isFinal=true), and returned 0.
C2_FirstErrorSentinel ==
    \A r \in ReqIds :
        (pc[r] = "done" /\ Len(Script(r)) >= 1 /\ Script(r)[1].err) =>
            /\ Len(cbLog[r]) = 1
            /\ IsErrorSentinelCb(cbLog[r][1])
            /\ ret[r] = 0

\* C3: a completed streaming call has made exactly one callback invocation
\* with isFinal=true.
C3_ExactlyOneTerminal ==
    \A r \in ReqIds :
        pc[r] = "done" =>
            Cardinality({k \in 1..Len(cbLog[r]) : IsTerminalCb(cbLog[r][k])}) = 1

\* C4: once a streaming call has processed an error response, it is never
\* again at the point of awaiting/polling the engine.
C4_NoPollAfterError ==
    \A r \in ReqIds : ErrorProcessed(r) => pc[r] \notin {"await", "poll"}

\* C5: a streaming call returns only after it has processed a response that is
\* final or carries an error.
C5_ReturnOnlyWhenDone ==
    \A r \in ReqIds :
        pc[r] = "done" =>
            \E k \in 1..Len(Processed(r)) : Processed(r)[k].err \/ Processed(r)[k].fin

\* C6: when the engine reports an error after K successful non-final
\* responses, the streaming call returns K.
C6_ReturnsPartialCount ==
    \A r \in ReqIds : \A K \in 0..Len(Script(r)) :
        (pc[r] = "done" /\ ErrorAfter(Script(r), K)) => ret[r] = K

\* C7: with two streaming calls running concurrently on distinct request ids,
\* the callbacks made for an id carry exactly that id's responses, in the
\* order the engine produced them for that id: the k-th response handed to the
\* call on r is the k-th response of r, and the callbacks made so far are the
\* processed responses (Stream: the successful ones) in the same order.
C7_PerIdFifo ==
    \A r \in ReqIds :
        /\ \A k \in 1..Len(delivered[r]) :
               ~delivered[r][k].err => delivered[r][k].tok = TokenOf(r, k)
        /\ call[r] = "StreamTokens" =>
               /\ Len(cbLog[r]) = Len(Processed(r))
               /\ \A k \in 1..Len(cbLog[r]) : cbLog[r][k].tok = Processed(r)[k].tok
        /\ call[r] = "Stream" =>
               LET ok == SelectSeq(Processed(r), LAMBDA x : ~x.err)
               IN  /\ Len(cbLog[r]) = Len(ok)
                   /\ \A k \in 1..Len(cbLog[r]) : cbLog[r][k].tok = ok[k].tok

\* both calls are mid-stream and each has already made two callbacks
C7_Witness ==
    /\ pc[1] \notin {"idle", "done"} /\ pc[2] \notin {"idle", "done"}
    /\ Len(cbLog[1]) = 2 /\ Len(cbLog[2]) = 2
    /\ call[1] # call[2]

\* ------------------------------------------------------------ submission claims
\* the input constraints on Submit's arguments (topP and temperature in tenths)
ValidSubmitArgs(a) ==
    /\ a.tokens # <<>>
    /\ a.maxNewTokens > 0
    /\ a.topP >= 0 /\ a.topP <= 10
    /\ a.temperature > 0

\* C8: a Submit call with an empty token sequence, maxNewTokens <= 0, topP
\* outside [0,1] or temperature <= 0 makes no call on the engine (no statistics
\* query, no enqueue) and returns no request id.
C8_InvalidSubmitRejected ==
    \A i \in 1..Len(submitLog) :
        ~ValidSubmitArgs(submitLog[i]) =>
            /\ submitLog[i].engineCalls = 0
            /\ submitLog[i].returned = NullOpt

\* ------------------------------------------------------------ configuration claims
\* C9: the produced configuration is in Leader mode when the document's
\* world_size is 1 and in Orchestrator mode when it is greater than 1, for
\* every value the document carries, values above 255 included.
C9_ModeFollowsWorldSize ==
    \A i \in 1..Len(backend) :
        /\ backend[i].world_size = 1 => backend[i].execConfig.mode = "Leader"
        /\ backend[i].world_size > 1 => backend[i].execConfig.mode = "Orchestrator"

\* C10: the produced configuration carries a worker-process path exactly when
\* its mode is Orchestrator, and in Orchestrator mode that path is non-empty,
\* whatever worker path was passed in.
C10_WorkerPathIffOrchestrator ==
    \A i \in 1..Len(backend) :
        LET cfg == backend[i].execConfig
        IN  /\ (cfg.orchestratorConfig # NullOpt) <=> (cfg.mode = "Orchestrator")
            /\ cfg.mode = "Orchestrator" =>
                   cfg.orchestratorConfig[1].workerExecutablePath # ""

\* C11: no executor is ever built from a metadata document that lacks the
\* world_size field (construction from it fails every time), and readiness is
\* never reported true for such a backend.
C11_MissingWorldSizeFails ==
    \A i \in 1..Len(backend) :
        /\ backend[i].hasWorldSize
        /\ ready = <<TRUE>> => backend[i].hasWorldSize

C13_InitRunsOnce == executorsBuilt >= 1 => initCount = 1

\* C13 amended: InitializeBackend runs once per CreateTensorRtLlmBackend call,
\* before that call constructs its executor: it has run as many times as the
\* call was made, and at least once per executor built.
C13_InitRunsPerCreate == initCount = createCalls /\ executorsBuilt <= initCount

\* two backends were created in the process
C13_Witness == executorsBuilt = 2 /\ createCalls = 2

\* C16: the KV-cache flag is true in every produced configuration.
C16_KvCacheAlwaysOn ==
    \A i \in 1..Len(backend) : backend[i].execConfig.kvCache

\* a Leader-mode configuration was produced
C16_Witness ==
    \E i \in 1..Len(backend) :
        backend[i].world_size = 1 /\ backend[i].execConfig.mode = "Leader"

\* ------------------------------------------------------------ further streaming claims
\* C15: every callback invocation of a StreamTokens call is passed the context
\* pointer the caller supplied, and the state behind each context pointer
\* changes only through those invocations: it holds exactly one update per
\* callback addressed to it, StreamTokens itself never writes it.
C15_ContextForwarded ==
    /\ \A r \in ReqIds :
           call[r] = "StreamTokens" =>
               /\ Len(cbCtx[r]) = Len(cbLog[r])
               /\ \A k \in 1..Len(cbCtx[r]) : cbCtx[r][k] = ctxArg[r]
    /\ \A p \in CtxPtrs :
           ctxMem[p] = (IF ctxArg[1] = p THEN Len(cbLog[1]) ELSE 0)
                       + (IF ctxArg[2] = p THEN Len(cbLog[2]) ELSE 0)

\* a StreamTokens call has made a token callback and then an error callback
C15_Witness ==
    /\ call[1] = "StreamTokens"
    /\ Len(cbLog[1]) >= 2
    /\ ~IsErrorSentinelCb(cbLog[1][1])
    /\ IsErrorSentinelCb(cbLog[1][2])

\* C17: a callback invocation with isFinal=true is the last callback of its
\* stream: no callback follows it.
C17_NothingAfterTerminal ==
    \A r \in ReqIds : \A k \in 1..Len(cbLog[r]) :
        IsTerminalCb(cbLog[r][k]) => k = Len(cbLog[r])

\* C18: once Stream has processed a final or an error response, it never goes
\* back to waiting for a batch.
C18_NoAwaitAfterTerminal ==
    \A r \in ReqIds :
        (call[r] = "Stream"
         /\ \E k \in 1..Len(Processed(r)) : Processed(r)[k].err \/ Processed(r)[k].fin)
            => pc[r] # "await"

\* ------------------------------------------------------------ further submission claims
\* C14: each Submit call enqueues exactly one request and returns the id the
\* engine assigned to it; every enqueued request has beam width 1, its first
\* two output options (log-probabilities, full output arrays) disabled, and its
\* top-alternatives flag set exactly when nTopTokens is present and > 1.
C14_RequestShape ==
    /\ Len(requests) = Len(submitLog)
    /\ \A i \in 1..Len(submitLog) :
           /\ submitLog[i].returned = <<i>>
           /\ requests[i].sampling.beamWidth = 1
           /\ ~requests[i].output[1]
           /\ ~requests[i].output[2]
           /\ requests[i].output[3] <=>
                  (submitLog[i].nTopTokens # NullOpt /\ submitLog[i].nTopTokens[1] > 1)

\* one Submit asked for one top token, another for two
C14_Witness ==
    /\ Len(submitLog) = 2
    /\ submitLog[1].nTopTokens = <<1>>
    /\ submitLog[2].nTopTokens = <<2>>

\* C19: the request enqueued by TensorRtLlmBackendImpl::Submit(tokens, topK,
\* topP, temperature, seed) has the caller's tokens in the same order and the
\* caller's topK, topP, temperature and seed as its sampling parameters of the
\* same names.
C19_FfiArgumentsKeepMeaning ==
    \A i \in 1..Len(ffiLog) :
        LET request == requests[ffiLog[i].returned]
        IN  /\ request.tokens = ffiLog[i].tokens
            /\ request.sampling.topK = ffiLog[i].topK
            /\ request.sampling.topP = ffiLog[i].topP
            /\ request.sampling.temperature = ffiLog[i].temperature
            /\ request.sampling.seed = <<ffiLog[i].seed>>

====
